---- MODULE Spec2Model ----
(***************************************************************************)
(* A model of ConnectionsSolver (src/src/connections/solver.py) and of the *)
(* candidate builders of src/src/connections/utils.py.                     *)
(*                                                                         *)
(* A word is the rank (1..16) of its string among the puzzle's words in    *)
(* Python's string order, so that sorted() is the numeric order.  A tuple  *)
(* or list is a sequence.  Python's None is the empty sequence and a value *)
(* v that may be None is <<v>>.                                            *)
(***************************************************************************)
EXTENDS Integers, Sequences, FiniteSets, TLC

VARIABLES
    puzzle,                      \* connections_puzzle, the argument of solve()
    pc,                          \* position of solve(): idle, pick, revise, score, Solved, Failed, Error
                                 \* (check, checked: before and after a call of the static checks alone;
                                 \*  generate, filter, cap, built: the position of create_guess_model)
    action_messages,             \* self.action_messages
    correct_guesses,             \* solve(): correct_guesses
    wrong_attempts,              \* solve(): wrong_attempts
    current_category_incorrect,  \* solve(): current_category_incorrect
    revising_guess,              \* solve(): revising_guess
    current_theme,               \* solve(): current_theme (None or <<theme>>)
    last_guess,                  \* solve(): last_guess (None or <<guess>>)
    available_words,             \* _get_category_by_word_guess(): available_words
    selected_words,              \* _get_category_by_word_guess(): selected_words, in word_1..word_4 order
    guess,                       \* solve(): guess
    outcome,                     \* solve(): is_correct, theme, partial_match of the last scored guess
    returned,                    \* what solve() returned: None or <<solution>>
    violations,                  \* number of oracle responses so far that were outside the offered space
    guess_model_args,            \* create_guess_model(): words, correct_guesses, incorrect_guesses of a call (None: no call)
    possible_groups,             \* create_guess_model(): possible_groups as generated, filtered and capped (None: no call)
    messages                     \* the messages of the last call of client.chat_completion_parsed (None: no call)

vars == <<puzzle, pc, action_messages, correct_guesses, wrong_attempts,
          current_category_incorrect, revising_guess, current_theme, last_guess,
          available_words, selected_words, guess, outcome, returned, violations,
          guess_model_args, possible_groups, messages>>

----------------------------------------------------------------------------
(* Program constants *)

NumWords == 16
NumCategories == 4
CategorySize == 4
MaxWrongAttempts == 4

(* Bounds of the model *)

\* The modelled oracle draws the words it names from the first OracleWidth
\* unsolved categories (in the order of puzzle.solutions).
OracleWidth == 2

\* The modelled oracle answers outside the offered space at most this often.
MaxViolations == 1

\* The caller calls solve() on a used solver when its transcript is at most this long.
MaxReuseLog == 11

None == <<>>
Some(v) == <<v>>

\* A string the oracle can return that is no word of the puzzle.
Junk == 0

----------------------------------------------------------------------------
(* Python helpers *)

SetOf(s) == {s[i] : i \in DOMAIN s}

\* list.index(x): the first position of x
Index(s, x) == CHOOSE i \in DOMAIN s : s[i] = x /\ \A j \in 1..(i - 1) : s[j] # x

\* list.remove(x): the list without the first occurrence of x
Remove(s, x) ==
    LET i == Index(s, x)
    IN  [j \in 1..(Len(s) - 1) |-> IF j < i THEN s[j] ELSE s[j + 1]]

\* truthiness of a str
TruthyStr(s) == s # ""

----------------------------------------------------------------------------
(* Puzzles *)

Solution(color, theme, words) == [color |-> color, theme |-> theme, words |-> words]

\* example_connections of main.py, every word replaced by its rank in sorted order:
\* Mermaid Prince Rascals Tramp air bar bel cute feeling fresh lux mole mood quality smart wise
ExamplePuzzle ==
    [words |-> <<8, 10, 15, 16, 5, 13, 9, 14, 6, 7, 11, 12, 1, 2, 3, 4>>,
     solutions |-> << Solution("yellow", "sassy", <<8, 10, 15, 16>>),
                      Solution("green", "ambience", <<5, 13, 9, 14>>),
                      Solution("blue", "units", <<6, 7, 11, 12>>),
                      Solution("purple", "The Little ____", <<1, 2, 3, 4>>) >>]

\* A puzzle whose categories interleave in the word list, one theme being the empty string.
InterleavedPuzzle ==
    [words |-> <<1, 2, 3, 4, 5, 6, 7, 8, 9, 10, 11, 12, 13, 14, 15, 16>>,
     solutions |-> << Solution("yellow", "first", <<1, 5, 9, 13>>),
                      Solution("green", "", <<14, 2, 10, 6>>),
                      Solution("blue", "third", <<3, 7, 11, 15>>),
                      Solution("purple", "fourth", <<16, 12, 8, 4>>) >>]

Puzzles == {ExamplePuzzle, InterleavedPuzzle}

\* A puzzle that breaks the puzzle invariants: two categories share 3 words
\* (DailyConnections checks neither that the categories are disjoint nor that
\* they cover the words).
OverlappingPuzzle ==
    [words |-> <<1, 2, 3, 4, 5, 6, 7, 8, 9, 10, 11, 12, 13, 14, 15, 16>>,
     solutions |-> << Solution("yellow", "first", <<1, 2, 3, 4>>),
                      Solution("green", "second", <<1, 2, 3, 5>>),
                      Solution("blue", "third", <<9, 10, 11, 12>>),
                      Solution("purple", "fourth", <<13, 14, 15, 16>>) >>]

----------------------------------------------------------------------------
(* Scoring *)

Min(S) == CHOOSE x \in S : \A y \in S : x <= y

\* _check_guess taking 3 common words for a match too
CheckGuessLoose(g, p) ==
    LET matches == {i \in DOMAIN p.solutions :
                        Cardinality(SetOf(p.solutions[i].words) \cap SetOf(g)) >= 3}
    IN  IF matches = {}
        THEN [is_correct |-> FALSE, color |-> None, theme |-> None]
        ELSE [is_correct |-> TRUE,
              color |-> Some(p.solutions[Min(matches)].color),
              theme |-> Some(p.solutions[Min(matches)].theme)]

\* _check_guess comparing the tuples, not the word sets
CheckGuessOrdered(g, p) ==
    LET matches == {i \in DOMAIN p.solutions : p.solutions[i].words = g}
    IN  IF matches = {}
        THEN [is_correct |-> FALSE, color |-> None, theme |-> None]
        ELSE [is_correct |-> TRUE,
              color |-> Some(p.solutions[Min(matches)].color),
              theme |-> Some(p.solutions[Min(matches)].theme)]

\* _check_guess: the first solution whose word set is the guess's word set
CheckGuess(g, p) ==
    LET matches == {i \in DOMAIN p.solutions : SetOf(p.solutions[i].words) = SetOf(g)}
    IN  IF matches = {}
        THEN [is_correct |-> FALSE, color |-> None, theme |-> None]
        ELSE [is_correct |-> TRUE,
              color |-> Some(p.solutions[Min(matches)].color),
              theme |-> Some(p.solutions[Min(matches)].theme)]

\* _check_for_partial_match taking 2 common words for a partial match too
CheckForPartialMatchLoose(g, p) ==
    LET common(i) == SetOf(g) \cap SetOf(p.solutions[i].words)
        matches == {i \in DOMAIN p.solutions : Cardinality(common(i)) \in {2, 3}}
    IN  IF matches = {}
        THEN None
        ELSE Some([common_words |-> common(Min(matches)),
                   theme |-> p.solutions[Min(matches)].theme,
                   color |-> p.solutions[Min(matches)].color])

\* _check_for_partial_match: the first solution sharing exactly 3 words with the guess
CheckForPartialMatch(g, p) ==
    LET common(i) == SetOf(g) \cap SetOf(p.solutions[i].words)
        matches == {i \in DOMAIN p.solutions : Cardinality(common(i)) = 3}
    IN  IF matches = {}
        THEN None
        ELSE Some([common_words |-> common(Min(matches)),
                   theme |-> p.solutions[Min(matches)].theme,
                   color |-> p.solutions[Min(matches)].color])

\* The locals of solve() after scoring a guess: _check_guess first, and
\* _check_for_partial_match only when the guess is not correct.
ScoreOf(g, p) ==
    LET c == CheckGuess(g, p)
    IN  [is_correct |-> c.is_correct,
         theme |-> c.theme,
         partial_match |-> IF c.is_correct THEN None ELSE CheckForPartialMatch(g, p)]

NoOutcome == [is_correct |-> FALSE, theme |-> None, partial_match |-> None]

\* The kind of an outcome, as the feedback message of solve() words it
Kind(o) ==
    IF o.is_correct THEN "correct"
    ELSE IF o.partial_match # None THEN "almost"
    ELSE "nope"

----------------------------------------------------------------------------
(* Candidate spaces *)

\* used_words: the words of the correct guesses
UsedWords(cg) == UNION {SetOf(cg[i]) : i \in DOMAIN cg}

\* available_words without the filter on the correct guesses
AvailableWordsUnfiltered(words, cg) == words

\* _edit_category_guess: available_words = [w for w in words if w not in used_words]
AvailableWords(words, cg) == SelectSeq(words, LAMBDA w : w \notin UsedWords(cg))

\* solve(): remaining_words = set(words) minus the words of every correct guess
RemainingWords(words, cg) == SetOf(words) \ UsedWords(cg)

\* replacement_words without the filter on the prior guess
ReplacementWordsUnfiltered(prior_guess, available) == available

\* create_revision_model: replacement_words
ReplacementWords(prior_guess, available) ==
    SelectSeq(available, LAMBDA w : w \notin SetOf(prior_guess))

\* create_revision_model: the two enums offered to the oracle
RevisionModel(prior_guess, available) ==
    [prior_guess_word_to_replace |-> prior_guess,
     word_to_use_as_replacement |-> ReplacementWords(prior_guess, available)]

\* the replacement written to the first position, whichever word is dropped
ApplyRevisionFirst(prior_guess, drop, add) == [prior_guess EXCEPT ![1] = add]

\* _edit_category_guess: the revised guess
ApplyRevision(prior_guess, drop, add) ==
    [prior_guess EXCEPT ![Index(prior_guess, drop)] = add]

\* create_guess_word_model is imported by solver.py and is not in utils.py.
\* The words it offers for the next pick: the available words (those not yet
\* selected for this guess) that are in no correct guess.
OfferedWords(available, cg) == SelectSeq(available, LAMBDA w : w \notin UsedWords(cg))

----------------------------------------------------------------------------
(* create_guess_model *)

MaxCombinations == 500

\* sorted(): words are ranks in Python's string order, so ascending numbers
Sorted(s) == SortSeq(s, LAMBDA a, b : a < b)

\* x put in front of every tuple of a list of tuples
Prepend(x, tuples) == [i \in DOMAIN tuples |-> <<x>> \o tuples[i]]

\* itertools.combinations(s, k): the k-tuples of positions of s in ascending
\* order of positions, those that hold the first element first
RECURSIVE Combinations(_, _)
Combinations(s, k) ==
    IF k = 0 THEN << <<>> >>
    ELSE IF Len(s) < k THEN <<>>
    ELSE Prepend(Head(s), Combinations(Tail(s), k - 1)) \o Combinations(Tail(s), k)

\* possible_groups built from every word, those of the correct guesses too
PossibleGroupsUnavailable(words, cg) == Combinations(Sorted(words), CategorySize)

\* possible_groups built from the available words in the order given
PossibleGroupsUnsorted(words, cg) == Combinations(AvailableWords(words, cg), CategorySize)

\* create_guess_model: possible_groups = list(combinations(sorted(available_words), 4))
PossibleGroups(words, cg) == Combinations(Sorted(AvailableWords(words, cg)), CategorySize)

\* create_guess_model: incorrect_sets
IncorrectSets(inc) == {SetOf(inc[i]) : i \in DOMAIN inc}

\* the filter comparing the tuples, not the word sets
FilteredGroupsOrdered(groups, inc) ==
    IF inc = <<>> THEN groups
    ELSE SelectSeq(groups, LAMBDA g : g \notin SetOf(inc))

\* create_guess_model: the groups that are not the word set of an incorrect guess
FilteredGroups(groups, inc) ==
    IF inc = <<>> THEN groups
    ELSE SelectSeq(groups, LAMBDA g : SetOf(g) \notin IncorrectSets(inc))

\* the cap set to 450 groups
CappedGroupsShort(groups) ==
    IF Len(groups) > MaxCombinations - 50
    THEN SubSeq(groups, 1, MaxCombinations - 50) ELSE groups

\* the cap keeping the last MaxCombinations groups
CappedGroupsLast(groups) ==
    IF Len(groups) > MaxCombinations
    THEN SubSeq(groups, Len(groups) - MaxCombinations + 1, Len(groups))
    ELSE groups

\* create_guess_model: possible_groups[:500] when there are more than 500
CappedGroups(groups) ==
    IF Len(groups) > MaxCombinations THEN SubSeq(groups, 1, MaxCombinations) ELSE groups

\* create_guess_model: the groups behind enum_values
CreateGuessModel(words, cg, inc) ==
    CappedGroups(FilteredGroups(PossibleGroups(words, cg), inc))

----------------------------------------------------------------------------
(* The answers of the oracle that the model enumerates *)

CategoryOf(w, p) ==
    LET cs == {i \in DOMAIN p.solutions : w \in SetOf(p.solutions[i].words)}
    IN  IF cs = {} THEN 0 ELSE Min(cs)

Unsolved(p, cg) ==
    {i \in DOMAIN p.solutions : ~ (SetOf(p.solutions[i].words) \subseteq UsedWords(cg))}

\* the n least elements of a set of numbers
FirstN(S, n) == {x \in S : Cardinality({y \in S : y < x}) < n}

OracleCats(p, cg) == FirstN(Unsolved(p, cg), OracleWidth)

\* the first word of list s that is in the set S, as a set of at most one word
FirstIn(s, S) ==
    {s[i] : i \in {j \in DOMAIN s : s[j] \in S /\ \A k \in 1..(j - 1) : s[k] \notin S}}

\* Offered picks: the next word of one of the oracle's categories, the
\* categories of one guess being named in ascending order.
FreshChoices ==
    LET cats == OracleCats(puzzle, correct_guesses)
        last == IF selected_words = <<>> THEN 0
                ELSE CategoryOf(selected_words[Len(selected_words)], puzzle)
        from == IF last \in cats THEN last ELSE 0
    IN  UNION {FirstIn(puzzle.solutions[c].words, SetOf(available_words))
                   : c \in {d \in cats : d >= from}}

\* Picks that were not offered: no word of the puzzle, a word already selected
\* for this guess, a word of a solved category.
FreshViolations ==
    IF violations >= MaxViolations THEN {}
    ELSE {Junk} \cup FirstIn(selected_words, SetOf(selected_words))
                \cup FirstIn(puzzle.words, UsedWords(correct_guesses))

\* Offered words to drop: those within OracleWidth - 1 positions of either end
\* of the prior guess.
DropChoices(prior_guess) ==
    {prior_guess[i] : i \in {j \in DOMAIN prior_guess :
                                 j < OracleWidth \/ j > Len(prior_guess) + 1 - OracleWidth}}

\* Offered replacements: the next word, not in the prior guess, of one of the
\* oracle's categories.
AddChoices(prior_guess) ==
    UNION {FirstIn(puzzle.solutions[c].words, SetOf(puzzle.words) \ SetOf(prior_guess))
               : c \in OracleCats(puzzle, correct_guesses)}

\* Replacements that were not offered: no word of the puzzle, a word of the
\* prior guess, a word of a solved category.
AddViolations(prior_guess) ==
    IF violations >= MaxViolations THEN {}
    ELSE {Junk} \cup {prior_guess[1]} \cup FirstIn(puzzle.words, UsedWords(correct_guesses))

\* Words to drop that were not offered: a word that is not in the prior guess.
DropViolations(prior_guess) ==
    IF violations >= MaxViolations THEN {}
    ELSE FirstIn(puzzle.words, SetOf(puzzle.words) \ SetOf(prior_guess))

----------------------------------------------------------------------------
(* The transcript *)

Message(role, kind, words, theme) ==
    [role |-> role, kind |-> kind, words |-> words, theme |-> theme]

\* the assistant message appended after an oracle call
ResponseMessage(kind, words) == Message("assistant", kind, words, "")

\* the messages of an oracle call with the feedback entries of the transcript left out
OracleMessagesNoFeedback(kind, log, said) ==
    <<Message("system", kind, <<>>, "")>>
        \o SelectSeq(log, LAMBDA m : m.role = "assistant")
        \o <<Message("user", "request", said, "")>>

\* the messages of an oracle call: the system message of the calling method,
\* self.action_messages, and the request, which quotes the words selected so far
OracleMessages(kind, log, said) ==
    <<Message("system", kind, <<>>, "")>> \o log \o <<Message("user", "request", said, "")>>

\* the user message solve() appends after scoring a guess
FeedbackMessage(o, g) ==
    Message("user", Kind(o), g, IF o.is_correct THEN o.theme[1] ELSE "")

----------------------------------------------------------------------------
(* solve() *)

\* The while condition and the branch at the top of the loop body.
LoopBranch(cg, wrong, revising, last, theme) ==
    IF Len(cg) < NumCategories /\ wrong < MaxWrongAttempts
    THEN IF revising /\ last # None /\ theme # None /\ TruthyStr(theme[1])
         THEN "revise"
         ELSE "pick"
    ELSE IF Len(cg) >= NumCategories
    THEN "Solved"
    ELSE "Error"    \* correct_guesses[3] raises IndexError

\* the budget test with > for >=
BudgetExhaustedLate(wrong) == wrong > MaxWrongAttempts

\* solve(): the budget test after a wrong guess, on which it returns None
BudgetExhausted(wrong) == wrong >= MaxWrongAttempts

\* the partial match that does not store the guess
RevisionAfterNoGuess(o, g) ==
    IF o.is_correct
    THEN [revising_guess |-> FALSE, current_theme |-> None, last_guess |-> None]
    ELSE IF o.partial_match # None
    THEN [revising_guess |-> TRUE,
          current_theme |-> Some(o.partial_match[1].theme),
          last_guess |-> last_guess]
    ELSE [revising_guess |-> FALSE, current_theme |-> None, last_guess |-> None]

\* the regular wrong guess leaving the revision state as it was
RevisionAfterStale(o, g) ==
    IF o.is_correct
    THEN [revising_guess |-> FALSE, current_theme |-> None, last_guess |-> None]
    ELSE IF o.partial_match # None
    THEN [revising_guess |-> TRUE,
          current_theme |-> Some(o.partial_match[1].theme),
          last_guess |-> Some(g)]
    ELSE [revising_guess |-> revising_guess, current_theme |-> current_theme,
          last_guess |-> last_guess]

\* revising_guess, current_theme, last_guess after a scored guess
RevisionAfter(o, g) ==
    IF o.is_correct
    THEN [revising_guess |-> FALSE, current_theme |-> None, last_guess |-> None]
    ELSE IF o.partial_match # None
    THEN [revising_guess |-> TRUE,
          current_theme |-> Some(o.partial_match[1].theme),
          last_guess |-> Some(g)]
    ELSE [revising_guess |-> FALSE, current_theme |-> None, last_guess |-> None]

\* wrong_attempts counting every guess
WrongAfterAlways(o, wrong) == wrong + 1

\* wrong_attempts reset with the other per-category state on a correct guess
WrongAfterReset(o, wrong) == IF o.is_correct THEN 0 ELSE wrong + 1

\* wrong_attempts after a scored guess
WrongAfter(o, wrong) == IF o.is_correct THEN wrong ELSE wrong + 1

\* correct_guesses after a scored guess
CorrectAfter(o, cg, g) == IF o.is_correct THEN Append(cg, g) ELSE cg

\* current_category_incorrect not reset on a correct guess
IncorrectAfterKept(o, cci, g) == IF o.is_correct THEN cci ELSE Append(cci, g)

\* current_category_incorrect restarted by a guess that matches no category
IncorrectAfterRestarted(o, cci, g) ==
    IF o.is_correct THEN <<>>
    ELSE IF o.partial_match = None THEN <<g>>
    ELSE Append(cci, g)

\* current_category_incorrect after a scored guess
IncorrectAfter(o, cci, g) == IF o.is_correct THEN <<>> ELSE Append(cci, g)

\* the solution filled from the last correct guess backwards
SolutionOfReversed(cg) ==
    [category_1 |-> cg[4], category_2 |-> cg[3], category_3 |-> cg[2], category_4 |-> cg[1]]

\* DailyConnectionsSolution built from the correct guesses
SolutionOf(cg) ==
    [category_1 |-> cg[1], category_2 |-> cg[2], category_3 |-> cg[3], category_4 |-> cg[4]]

Init ==
    /\ puzzle \in Puzzles
    /\ pc = "idle"
    /\ action_messages = <<>>
    /\ correct_guesses = <<>>
    /\ wrong_attempts = 0
    /\ current_category_incorrect = <<>>
    /\ revising_guess = FALSE
    /\ current_theme = None
    /\ last_guess = None
    /\ available_words = <<>>
    /\ selected_words = <<>>
    /\ guess = <<>>
    /\ outcome = NoOutcome
    /\ returned = None
    /\ violations = 0
    /\ guess_model_args = None
    /\ possible_groups = None
    /\ messages = None

\* solve() is called: its locals are initialised and the first iteration begins.
Solve ==
    /\ pc = "idle"
    /\ correct_guesses' = <<>>
    /\ wrong_attempts' = 0
    /\ current_category_incorrect' = <<>>
    /\ revising_guess' = FALSE
    /\ current_theme' = None
    /\ last_guess' = None
    /\ pc' = LoopBranch(<<>>, 0, FALSE, None, None)
    /\ available_words' = puzzle.words
    /\ selected_words' = <<>>
    /\ UNCHANGED <<puzzle, guess_model_args, possible_groups, messages, action_messages, guess, outcome, returned, violations>>

\* One oracle call of _get_category_by_word_guess: the oracle answers word w.
PickWord(w) ==
    /\ pc = "pick"
    /\ messages' = Some(OracleMessages("build", action_messages, selected_words))
    /\ action_messages' = Append(action_messages, ResponseMessage("word", <<w>>))
    /\ selected_words' = Append(selected_words, w)
    /\ violations' = IF w \in SetOf(OfferedWords(available_words, correct_guesses))
                     THEN violations ELSE violations + 1
    /\ IF w \notin SetOf(available_words)
       THEN \* available_words.remove raises ValueError
            /\ pc' = "Error"
            /\ UNCHANGED <<available_words, guess>>
       ELSE /\ available_words' = Remove(available_words, w)
            /\ IF Len(selected_words) + 1 = CategorySize
               THEN pc' = "score" /\ guess' = Append(selected_words, w)
               ELSE pc' = "pick" /\ UNCHANGED guess
    /\ UNCHANGED <<puzzle, guess_model_args, possible_groups, correct_guesses, wrong_attempts, current_category_incorrect,
                   revising_guess, current_theme, last_guess, outcome, returned>>

\* The oracle call of _edit_category_guess: the oracle answers the pair (drop, add).
EditGuess(drop, add) ==
    LET prior == last_guess[1]
        model == RevisionModel(prior, AvailableWords(puzzle.words, correct_guesses))
    IN  /\ pc = "revise"
        /\ messages' = Some(OracleMessages("revise", action_messages, <<>>))
        /\ action_messages' = Append(action_messages, ResponseMessage("swap", <<drop, add>>))
        /\ violations' = IF /\ drop \in SetOf(model.prior_guess_word_to_replace)
                            /\ add \in SetOf(model.word_to_use_as_replacement)
                         THEN violations ELSE violations + 1
        /\ IF drop \notin SetOf(prior)
           THEN \* word_list.index raises ValueError
                /\ pc' = "Error"
                /\ UNCHANGED guess
           ELSE /\ pc' = "score"
                /\ guess' = ApplyRevision(prior, drop, add)
        /\ UNCHANGED <<puzzle, guess_model_args, possible_groups, correct_guesses, wrong_attempts, current_category_incorrect,
                       revising_guess, current_theme, last_guess, available_words,
                       selected_words, outcome, returned>>

\* The rest of the loop body once the guess is scored with outcome o: the
\* session is updated, and the loop returns, exits or starts its next iteration.
AfterScore(o) ==
    LET rev == RevisionAfter(o, guess)
        wrong == WrongAfter(o, wrong_attempts)
        cg == CorrectAfter(o, correct_guesses, guess)
        branch == IF ~ o.is_correct /\ BudgetExhausted(wrong)
                  THEN "Failed"
                  ELSE LoopBranch(cg, wrong, rev.revising_guess, rev.last_guess,
                                  rev.current_theme)
    IN  /\ outcome' = o
        /\ action_messages' = Append(action_messages, FeedbackMessage(o, guess))
        /\ correct_guesses' = cg
        /\ wrong_attempts' = wrong
        /\ current_category_incorrect' = IncorrectAfter(o, current_category_incorrect, guess)
        /\ revising_guess' = rev.revising_guess
        /\ current_theme' = rev.current_theme
        /\ last_guess' = rev.last_guess
        /\ pc' = branch
        /\ returned' = IF branch = "Solved" THEN Some(SolutionOf(cg)) ELSE None
        /\ available_words' = IF branch = "pick" THEN puzzle.words ELSE available_words
        /\ selected_words' = IF branch = "pick" THEN <<>> ELSE selected_words
        /\ UNCHANGED <<puzzle, guess_model_args, possible_groups, messages, guess, violations>>

\* The guess is scored and the loop body runs to its end.
ScoreGuess ==
    /\ pc = "score"
    /\ \E o \in {ScoreOf(guess, puzzle)} : AfterScore(o)

\* Pick and Edit: the oracle keeps its contract and answers from the offered space.
Pick == pc = "pick" /\ \E w \in FreshChoices : PickWord(w)

Edit ==
    /\ pc = "revise"
    /\ \E pair \in DropChoices(last_guess[1]) \X AddChoices(last_guess[1]) :
           EditGuess(pair[1], pair[2])

Next == Solve \/ Pick \/ Edit \/ ScoreGuess

Spec == Init /\ [][Next]_vars

\* Every oracle call returns and the loop is sequential: solve() keeps running.
FairSpec == Spec /\ WF_vars(Next)

\* PickAny and EditAny: the oracle is any StructuredOutputLLMClient, whose answer
\* is a str that need not be one of the offered values.
PickAny == pc = "pick" /\ \E w \in FreshChoices \cup FreshViolations : PickWord(w)

\* An offered pair, a pair whose word to drop was not offered, or a pair whose
\* replacement was not offered.
EditChoices(prior_guess) ==
    (DropChoices(prior_guess) \X AddChoices(prior_guess))
        \cup (DropViolations(prior_guess) \X AddChoices(prior_guess))
        \cup ({prior_guess[Len(prior_guess)]} \X AddViolations(prior_guess))

EditAny ==
    /\ pc = "revise"
    /\ \E pair \in EditChoices(last_guess[1]) : EditGuess(pair[1], pair[2])

OpenInit == Init /\ puzzle = ExamplePuzzle

OpenNext == Solve \/ PickAny \/ EditAny \/ ScoreGuess

OpenSpec == OpenInit /\ [][OpenNext]_vars

\* solve() is called again on the solver object once a solve has returned, on
\* the same or another puzzle: its locals are new, self.action_messages is the
\* list the earlier solve appended to.
SolveAgain ==
    /\ pc \in {"Solved", "Failed"}
    /\ Len(action_messages) <= MaxReuseLog
    /\ puzzle' \in Puzzles
    /\ correct_guesses' = <<>>
    /\ wrong_attempts' = 0
    /\ current_category_incorrect' = <<>>
    /\ revising_guess' = FALSE
    /\ current_theme' = None
    /\ last_guess' = None
    /\ pc' = LoopBranch(<<>>, 0, FALSE, None, None)
    /\ available_words' = puzzle'.words
    /\ selected_words' = <<>>
    /\ guess' = <<>>
    /\ outcome' = NoOutcome
    /\ returned' = None
    /\ UNCHANGED <<guess_model_args, possible_groups, messages, action_messages, violations>>

ReuseNext == Solve \/ SolveAgain \/ Pick \/ Edit \/ ScoreGuess

ReuseSpec == OpenInit /\ [][ReuseNext]_vars

\* _check_guess and _check_for_partial_match are static: they are called on any
\* guess of 4 distinct words of the puzzle, outside a session.
AllGuesses ==
    {g \in [1..CategorySize -> 1..NumWords] : \A i, j \in 1..CategorySize : i # j => g[i] # g[j]}

\* One call of the two checks on the guess drawn at the start.
CheckCall ==
    /\ pc = "check"
    /\ outcome' = ScoreOf(guess, puzzle)
    /\ pc' = "checked"
    /\ UNCHANGED <<puzzle, guess_model_args, possible_groups, messages, guess, action_messages, correct_guesses, wrong_attempts,
                   current_category_incorrect, revising_guess, current_theme, last_guess,
                   available_words, selected_words, returned, violations>>

ScoreInit ==
    /\ puzzle \in Puzzles
    /\ pc = "check"
    /\ guess \in AllGuesses
    /\ outcome = NoOutcome
    /\ action_messages = <<>>
    /\ correct_guesses = <<>>
    /\ wrong_attempts = 0
    /\ current_category_incorrect = <<>>
    /\ revising_guess = FALSE
    /\ current_theme = None
    /\ last_guess = None
    /\ available_words = <<>>
    /\ selected_words = <<>>
    /\ returned = None
    /\ violations = 0
    /\ guess_model_args = None
    /\ possible_groups = None
    /\ messages = None

ScoreNext == CheckCall

ScoreSpec == ScoreInit /\ [][ScoreNext]_vars

\* The static checks called on a guess and the puzzle with overlapping categories.
MalformedInit ==
    /\ puzzle = OverlappingPuzzle
    /\ pc = "check"
    /\ guess \in AllGuesses
    /\ outcome = NoOutcome
    /\ action_messages = <<>>
    /\ correct_guesses = <<>>
    /\ wrong_attempts = 0
    /\ current_category_incorrect = <<>>
    /\ revising_guess = FALSE
    /\ current_theme = None
    /\ last_guess = None
    /\ available_words = <<>>
    /\ selected_words = <<>>
    /\ returned = None
    /\ violations = 0
    /\ guess_model_args = None
    /\ possible_groups = None
    /\ messages = None

MalformedSpec == MalformedInit /\ [][ScoreNext]_vars

\* create_guess_model is a function of its arguments: it is called on lists of
\* distinct words of several lengths and orders, on correct guesses in any
\* order, and on incorrect guesses in any order, repeated, or holding words
\* that are not available.
GenWords ==
    {ExamplePuzzle.words, InterleavedPuzzle.words,
     [i \in 1..NumWords |-> NumWords + 1 - i],
     [i \in 1..(NumWords - 3) |-> NumWords - 2 - i],
     <<12, 3, 8, 1, 5>>, <<9, 4, 7, 2>>, <<3, 1, 2>>, <<>>}

GenCorrect ==
    {<<>>,
     << <<8, 10, 15, 16>> >>,
     << <<14, 9, 13, 5>>, <<16, 15, 10, 8>> >>,
     << <<1, 2, 3, 4>>, <<6, 7, 11, 12>>, <<5, 13, 9, 14>> >>,
     << <<8, 10, 15, 16>>, <<5, 13, 9, 14>>, <<6, 7, 11, 12>>, <<1, 2, 3, 4>> >>}

GenIncorrect ==
    {<<>>,
     << <<8, 10, 15, 6>> >>,
     << <<6, 15, 10, 8>>, <<8, 10, 15, 6>> >>,
     << <<1, 2, 3, 4>>, <<1, 2, 3, 5>>, <<1, 2, 3, 6>> >>,
     << <<4, 3, 2, 1>>, <<16, 15, 14, 13>>, <<1, 5, 9, 13>>, <<2, 4, 7, 9>> >>,
     << <<1, 2, 3, Junk>> >>}

GuessModelArgs(words, cg, inc) ==
    [words |-> words, correct_guesses |-> cg, incorrect_guesses |-> inc]

\* create_guess_model, lines 43-54: the combinations of the available words
GenerateGroups ==
    /\ pc = "generate"
    /\ possible_groups' = Some(PossibleGroups(guess_model_args[1].words,
                                              guess_model_args[1].correct_guesses))
    /\ pc' = "filter"
    /\ UNCHANGED <<puzzle, guess_model_args, messages, action_messages, correct_guesses,
                   wrong_attempts, current_category_incorrect, revising_guess,
                   current_theme, last_guess, available_words, selected_words, guess,
                   outcome, returned, violations>>

\* create_guess_model, lines 61-79: the incorrect guesses are removed
FilterGroups ==
    /\ pc = "filter"
    /\ possible_groups' = Some(FilteredGroups(possible_groups[1],
                                              guess_model_args[1].incorrect_guesses))
    /\ pc' = "cap"
    /\ UNCHANGED <<puzzle, guess_model_args, messages, action_messages, correct_guesses,
                   wrong_attempts, current_category_incorrect, revising_guess,
                   current_theme, last_guess, available_words, selected_words, guess,
                   outcome, returned, violations>>

\* create_guess_model, lines 81-89: the cap; the groups left make enum_values
CapGroups ==
    /\ pc = "cap"
    /\ possible_groups' = Some(CappedGroups(possible_groups[1]))
    /\ pc' = "built"
    /\ UNCHANGED <<puzzle, guess_model_args, messages, action_messages, correct_guesses,
                   wrong_attempts, current_category_incorrect, revising_guess,
                   current_theme, last_guess, available_words, selected_words, guess,
                   outcome, returned, violations>>

GenInit ==
    /\ puzzle = ExamplePuzzle
    /\ pc = "generate"
    /\ guess_model_args \in {Some(GuessModelArgs(w, cg, inc)) :
                                 w \in GenWords, cg \in GenCorrect, inc \in GenIncorrect}
    /\ possible_groups = None
    /\ messages = None
    /\ action_messages = <<>>
    /\ correct_guesses = <<>>
    /\ wrong_attempts = 0
    /\ current_category_incorrect = <<>>
    /\ revising_guess = FALSE
    /\ current_theme = None
    /\ last_guess = None
    /\ available_words = <<>>
    /\ selected_words = <<>>
    /\ guess = <<>>
    /\ outcome = NoOutcome
    /\ returned = None
    /\ violations = 0

GenNext == GenerateGroups \/ FilterGroups \/ CapGroups

GenSpec == GenInit /\ [][GenNext]_vars

\* create_guess_model as _get_category_guess calls it (lines 58-62): with the
\* words of a puzzle, the correct guesses and the incorrect guesses of a
\* session that has not ended.

\* A puzzle whose category with the first word holds the last three words.
LatePuzzle ==
    [words |-> <<16, 1, 15, 2, 14, 3, 13, 4, 12, 5, 11, 6, 10, 7, 9, 8>>,
     solutions |-> << Solution("yellow", "first", <<4, 5, 6, 7>>),
                      Solution("green", "second", <<13, 2, 12, 11>>),
                      Solution("blue", "third", <<1, 14, 15, 16>>),
                      Solution("purple", "fourth", <<8, 9, 10, 3>>) >>]

SessionPuzzles == Puzzles \cup {LatePuzzle}

\* the elements of a sequence at the indices in I, in their order
ElementsAt(seq, I) ==
    [k \in 1..Cardinality(I) |-> seq[CHOOSE i \in I : Cardinality({j \in I : j < i}) = k - 1]]

\* correct_guesses of a session that has not ended: up to 3 categories of the puzzle
SolvedLists(p) ==
    {ElementsAt([i \in DOMAIN p.solutions |-> p.solutions[i].words], I) :
         I \in {J \in SUBSET DOMAIN p.solutions : Cardinality(J) < NumCategories}}

\* guesses a session may have scored wrong
RejectedPool ==
    << <<1, 2, 3, 4>>, <<3, 2, 1, 5>>, <<1, 14, 15, 13>>, <<1, 2, 3, 16>>,
       <<5, 6, 7, 8>>, <<2, 11, 12, 14>> >>

\* current_category_incorrect of a session that has not ended: up to 3 guesses
\* of words in no correct guess, none of them a category
RejectedLists(p, cg) ==
    LET ok == {i \in DOMAIN RejectedPool :
                   /\ SetOf(RejectedPool[i]) \cap UsedWords(cg) = {}
                   /\ \A c \in DOMAIN p.solutions :
                          SetOf(p.solutions[c].words) # SetOf(RejectedPool[i])}
    IN  {ElementsAt(RejectedPool, I) : I \in {J \in SUBSET ok : Cardinality(J) < MaxWrongAttempts}}

SessionGenInit ==
    /\ puzzle \in SessionPuzzles
    /\ pc = "generate"
    /\ guess_model_args \in UNION {{Some(GuessModelArgs(puzzle.words, cg, inc)) :
                                          inc \in RejectedLists(puzzle, cg)} :
                                     cg \in SolvedLists(puzzle)}
    /\ possible_groups = None
    /\ messages = None
    /\ action_messages = <<>>
    /\ correct_guesses = <<>>
    /\ wrong_attempts = 0
    /\ current_category_incorrect = <<>>
    /\ revising_guess = FALSE
    /\ current_theme = None
    /\ last_guess = None
    /\ available_words = <<>>
    /\ selected_words = <<>>
    /\ guess = <<>>
    /\ outcome = NoOutcome
    /\ returned = None
    /\ violations = 0

SessionGenSpec == SessionGenInit /\ [][GenNext]_vars

----------------------------------------------------------------------------
(* Vocabulary of the properties *)

\* the attempt log: the feedback entries of the transcript, one per scored guess
Feedback == SelectSeq(action_messages, LAMBDA m : m.role = "user")

KindCount(k) == Cardinality({i \in DOMAIN Feedback : Feedback[i].kind = k})

Overlap(g, i) == Cardinality(SetOf(g) \cap SetOf(puzzle.solutions[i].words))

IsCategory(g) == \E i \in DOMAIN puzzle.solutions : SetOf(g) = SetOf(puzzle.solutions[i].words)

ThreeOf(g) == {i \in DOMAIN puzzle.solutions : Overlap(g, i) = 3}

IsPartialGuess(g) == ~ IsCategory(g) /\ ThreeOf(g) # {}

IsIncorrectGuess(g) == ~ IsCategory(g) /\ ThreeOf(g) = {}

\* the words a partially matching guess shares with its category
LockedWords(g) ==
    LET i == CHOOSE j \in ThreeOf(g) : TRUE
    IN  SetOf(g) \cap SetOf(puzzle.solutions[i].words)

\* every guess the oracle has completed: the logged ones and the one about to be scored
Guesses == [i \in DOMAIN Feedback |-> Feedback[i].words]
               \o (IF pc = "score" THEN <<guess>> ELSE <<>>)

NoRevisionRequested == \A i \in DOMAIN action_messages : action_messages[i].kind # "swap"

MaxScored == NumCategories + MaxWrongAttempts - 1

----------------------------------------------------------------------------
(* C1 *)

\* C1: whatever the oracle answers from the offered space, solve() ends Solved
\* or Failed; no state has more than 4 wrong attempts, more than 4 correct or
\* 4 other outcomes, or more than 7 scored guesses.
C1_Termination ==
    /\ <>(pc \in {"Solved", "Failed"})
    /\ [](/\ wrong_attempts <= MaxWrongAttempts
          /\ Len(Feedback) <= MaxScored
          /\ KindCount("correct") <= NumCategories
          /\ KindCount("almost") + KindCount("nope") <= MaxWrongAttempts)

C1_Witness == pc = "Solved" /\ Len(Feedback) = MaxScored /\ wrong_attempts = MaxWrongAttempts - 1

(* C2 *)

\* every completed guess is a category no earlier guess named, and the words
\* selected so far belong to such a category
PerfectOracle ==
    /\ \A i \in DOMAIN Guesses :
           /\ IsCategory(Guesses[i])
           /\ \A j \in 1..(i - 1) : SetOf(Guesses[j]) # SetOf(Guesses[i])
    /\ pc = "pick" =>
           \E c \in DOMAIN puzzle.solutions :
               /\ SetOf(selected_words) \subseteq SetOf(puzzle.solutions[c].words)
               /\ \A j \in DOMAIN Guesses : SetOf(Guesses[j]) # SetOf(puzzle.solutions[c].words)

\* C2: when every selection of the oracle is a true, still unsolved category,
\* the session reaches Solved after exactly 4 guesses, all of them Correct,
\* with no wrong attempt and without ever asking for a revision.
C2_PerfectOracle ==
    []PerfectOracle =>
        <>(/\ pc = "Solved"
           /\ Len(Feedback) = NumCategories
           /\ KindCount("correct") = NumCategories
           /\ wrong_attempts = 0
           /\ NoRevisionRequested
           /\ ~ revising_guess)

C2_Witness ==
    pc = "Solved" /\ PerfectOracle /\ wrong_attempts = 0 /\ Len(Feedback) = NumCategories

(* C3 *)

\* C3: the step that scores a guess as Incorrect clears the revising flag, the
\* prior guess and the theme hint, and the next iteration is a fresh guess.
C3_NoStaleRevision ==
    [][(pc = "score" /\ IsIncorrectGuess(guess)) =>
           /\ ~ revising_guess'
           /\ current_theme' = None
           /\ last_guess' = None
           /\ pc' # "revise"]_vars

\* an Incorrect guess that a revision produced has been scored, and a fresh guess follows
C3_Witness ==
    LET n == Len(action_messages)
    IN  /\ n >= 2
        /\ action_messages[n].kind = "nope"
        /\ action_messages[n - 1].kind = "swap"
        /\ pc = "pick"
        /\ ~ revising_guess

(* C4 *)

\* C4: the step that scores a guess sharing exactly 3 words with a category
\* adds one wrong attempt, appends the guess to current_category_incorrect,
\* sets the revision context to the guess and that category's theme, and,
\* unless the budget is exhausted, the next iteration is a revision.
C4_PartialMatchTransition ==
    [][(pc = "score" /\ IsPartialGuess(guess)) =>
           /\ wrong_attempts' = wrong_attempts + 1
           /\ current_category_incorrect' = Append(current_category_incorrect, guess)
           /\ revising_guess'
           /\ last_guess' = Some(guess)
           /\ \E i \in ThreeOf(guess) : current_theme' = Some(puzzle.solutions[i].theme)
           /\ (wrong_attempts' < MaxWrongAttempts => pc' = "revise")]_vars

(* C5 *)

\* C5: an answer from outside the offered space is in no guess that is scored
\* or recorded: once the guess that holds it is complete, the session is in its
\* fatal error state.
C5_ContractEnforced == (violations > 0 /\ pc # "pick") => pc = "Error"

(* C6 *)

\* C6: wrong_attempts starts at 0, grows by one with every guess that is not
\* Correct and changes in no other step; the session is Failed exactly by the
\* step that makes it 4 with fewer than 4 categories solved, and nothing
\* happens after that.
C6_Budget ==
    /\ wrong_attempts = 0
    /\ [][/\ (pc = "score" /\ ~ IsCategory(guess)) => wrong_attempts' = wrong_attempts + 1
          /\ (pc = "score" /\ IsCategory(guess)) => wrong_attempts' = wrong_attempts
          /\ pc # "score" => wrong_attempts' = wrong_attempts
          /\ pc' = "Failed" <=> (/\ pc = "score"
                                 /\ wrong_attempts' = MaxWrongAttempts
                                 /\ Len(correct_guesses') < NumCategories)]_vars
    /\ [](pc = "Failed" => (returned = None /\ ~ ENABLED Next))

\* Failed with categories solved on the way: the counter was not reset
C6_Witness ==
    pc = "Failed" /\ wrong_attempts = MaxWrongAttempts /\ Len(correct_guesses) = 2

(* C7 *)

\* C7: when every guess of the oracle scores Incorrect, the session ends Failed
\* after exactly 4 guesses, with 4 wrong attempts, a log of 4 guesses, nothing
\* solved and no revision ever requested.
C7_AlwaysWrong ==
    [](\A i \in DOMAIN Guesses : IsIncorrectGuess(Guesses[i])) =>
        <>(/\ pc = "Failed"
           /\ wrong_attempts = MaxWrongAttempts
           /\ Len(Feedback) = MaxWrongAttempts
           /\ KindCount("nope") = MaxWrongAttempts
           /\ correct_guesses = <<>>
           /\ returned = None
           /\ NoRevisionRequested)

C7_Witness ==
    /\ pc = "Failed"
    /\ Len(Guesses) = MaxWrongAttempts
    /\ \A i \in DOMAIN Guesses : IsIncorrectGuess(Guesses[i])

(* C8 *)

\* C8: the step that scores a guess equal to a category appends it to
\* correct_guesses (at most 4 long), takes its 4 words out of the remaining
\* words, empties current_category_incorrect, clears the revision context and
\* leaves wrong_attempts alone; correct_guesses only ever grows at its end,
\* and the session becomes Solved exactly when its length reaches 4.
C8_CorrectTransition ==
    [][/\ (pc = "score" /\ IsCategory(guess)) =>
              /\ correct_guesses' = Append(correct_guesses, guess)
              /\ Len(correct_guesses') <= NumCategories
              /\ SetOf(guess) \subseteq RemainingWords(puzzle.words, correct_guesses)
              /\ RemainingWords(puzzle.words, correct_guesses')
                     = RemainingWords(puzzle.words, correct_guesses) \ SetOf(guess)
              /\ current_category_incorrect' = <<>>
              /\ ~ revising_guess' /\ current_theme' = None /\ last_guess' = None
              /\ wrong_attempts' = wrong_attempts
       /\ (pc = "score" /\ ~ IsCategory(guess)) => correct_guesses' = correct_guesses
       /\ pc # "score" => correct_guesses' = correct_guesses
       /\ pc' = "Solved" <=> (pc = "score" /\ Len(correct_guesses') = NumCategories)]_vars

\* a revision has been scored Correct, after wrong guesses for its category
C8_Witness ==
    LET n == Len(action_messages)
    IN  /\ n >= 2
        /\ action_messages[n].kind = "correct"
        /\ action_messages[n - 1].kind = "swap"
        /\ wrong_attempts >= 2
        /\ Len(correct_guesses) >= 2
        /\ current_category_incorrect = <<>>

(* C9 *)

\* the pairs create_revision_model offers for the revision at hand
OfferedPairs ==
    LET m == RevisionModel(last_guess[1], AvailableWords(puzzle.words, correct_guesses))
    IN  SetOf(m.prior_guess_word_to_replace) \X SetOf(m.word_to_use_as_replacement)

\* C9 as claimed: every offered revision keeps the 3 locked words and varies
\* the fourth, and |remaining_words| - 3 revisions are offered.
C9_RevisionProperty ==
    pc = "revise" =>
        LET prior == last_guess[1]
            locked == LockedWords(prior)
        IN  /\ Cardinality(locked) = 3
            /\ \A c \in OfferedPairs :
                   /\ locked \subseteq SetOf(ApplyRevision(prior, c[1], c[2]))
                   /\ c[1] \notin locked
            /\ Cardinality(OfferedPairs)
                   = Cardinality(RemainingWords(puzzle.words, correct_guesses)) - 3

\* C9 as amended: every offered revision changes exactly one position of the
\* prior guess, to a remaining word that is not in it; it keeps the 3 locked
\* words exactly when the word it drops is the one that is not locked;
\* 4 * (|remaining_words| - 4) revisions are offered, |remaining_words| - 4 of
\* which keep the locked words.
C9_RevisionAmended ==
    pc = "revise" =>
        LET prior == last_guess[1]
            locked == LockedWords(prior)
            remaining == RemainingWords(puzzle.words, correct_guesses)
        IN  /\ Cardinality(locked) = 3
            /\ \A c \in OfferedPairs :
                   LET g == ApplyRevision(prior, c[1], c[2])
                   IN  /\ {i \in DOMAIN prior : g[i] # prior[i]} = {Index(prior, c[1])}
                       /\ g[Index(prior, c[1])] = c[2]
                       /\ c[2] \in remaining \ SetOf(prior)
                       /\ Cardinality(SetOf(g)) = CategorySize
                       /\ (locked \subseteq SetOf(g)) <=> (c[1] \notin locked)
            /\ Cardinality(OfferedPairs) = CategorySize * (Cardinality(remaining) - CategorySize)
            /\ Cardinality({c \in OfferedPairs : c[1] \notin locked})
                   = Cardinality(remaining) - CategorySize

\* a revision is requested for a guess that is itself a revision, a category being solved
C9_Witness ==
    /\ pc = "revise"
    /\ wrong_attempts >= 2
    /\ Len(correct_guesses) >= 1
    /\ action_messages[Len(action_messages) - 1].kind = "swap"

(* C10 *)

\* C10: the score of a guess of 4 distinct puzzle words is Correct exactly when
\* its word set is a category's, PartialMatch exactly when it shares exactly 3
\* words with a category, Incorrect otherwise, and never two of these; a
\* PartialMatch reports those 3 words and that category's theme; the words of
\* the guess in any other order score the same.
C10_Scoring ==
    pc = "checked" =>
        LET exact == {i \in DOMAIN puzzle.solutions :
                          SetOf(guess) = SetOf(puzzle.solutions[i].words)}
            three == ThreeOf(guess)
        IN  /\ ~ (exact # {} /\ three # {})
            /\ Kind(outcome) = "correct" <=> exact # {}
            /\ Kind(outcome) = "almost" <=> three # {}
            /\ Kind(outcome) = "nope" <=> (exact = {} /\ three = {})
            /\ \A i \in exact : outcome.theme = Some(puzzle.solutions[i].theme)
            /\ Cardinality(three) <= 1
            /\ \A i \in three :
                   /\ outcome.partial_match[1].common_words
                          = SetOf(guess) \cap SetOf(puzzle.solutions[i].words)
                   /\ outcome.partial_match[1].theme = puzzle.solutions[i].theme
            /\ \A perm \in Permutations(1..CategorySize) :
                   ScoreOf([i \in 1..CategorySize |-> guess[perm[i]]], puzzle) = outcome

\* a category named in an order that is not the solution's has been scored
C10_Witness ==
    /\ pc = "checked"
    /\ outcome.is_correct
    /\ \A i \in DOMAIN puzzle.solutions : puzzle.solutions[i].words # guess

(* C11 *)

\* the arguments of the call of create_guess_model at hand
GenArgs == guess_model_args[1]

\* the words of the call that are in no correct guess
GenAvailable == SetOf(GenArgs.words) \ UsedWords(GenArgs.correct_guesses)

\* C11: the cap step returns at most 500 candidates, and they are the first
\* min(500, total) candidates of the filtered sequence in the same order; for
\* 16 words with no correct and no incorrect guess it returns exactly 500.
C11_Capping ==
    [][pc = "cap" =>
           LET filtered == possible_groups[1]
               capped == possible_groups'[1]
               n == Min({MaxCombinations, Len(filtered)})
           IN  /\ Len(capped) <= MaxCombinations
               /\ Len(capped) = n
               /\ \A i \in 1..n : capped[i] = filtered[i]
               /\ (/\ Len(GenArgs.words) = NumWords
                   /\ GenArgs.correct_guesses = <<>>
                   /\ GenArgs.incorrect_guesses = <<>>) => Len(capped) = MaxCombinations]_vars

\* the cap has cut a sequence whose first combination had been filtered out
C11_Witness ==
    /\ pc = "built"
    /\ Len(possible_groups[1]) = MaxCombinations
    /\ GenArgs.incorrect_guesses # <<>>
    /\ possible_groups[1][1] = <<1, 2, 3, 7>>

(* C12 *)

\* the 4-element subsets of a set of words
FourSubsets(S) == {T \in SUBSET S : Cardinality(T) = CategorySize}

\* the number of 4-element subsets of a set of n elements
Choose4(n) == (n * (n - 1) * (n - 2) * (n - 3)) \div 24

\* the word sets of a sequence of groups
GroupSets(groups) == {SetOf(groups[i]) : i \in DOMAIN groups}

\* C12: with no incorrect guess, the sequence before the cap holds every
\* 4-element subset of the available words once and nothing else: C(n,4)
\* groups for n available words, 1820 for 16 and none for fewer than 4.
C12_UncappedSpace ==
    (pc = "cap" /\ GenArgs.incorrect_guesses = <<>>) =>
        LET groups == possible_groups[1]
            n == Cardinality(GenAvailable)
        IN  /\ GroupSets(groups) = FourSubsets(GenAvailable)
            /\ Len(groups) = Cardinality(GroupSets(groups))
            /\ Len(groups) = Choose4(n)
            /\ n = NumWords => Len(groups) = 1820
            /\ n < CategorySize => groups = <<>>

\* the full space of the 16 words of main.py, given in the puzzle's order
C12_Witness ==
    /\ pc = "cap"
    /\ GenArgs.incorrect_guesses = <<>>
    /\ GenArgs.words = ExamplePuzzle.words
    /\ Len(possible_groups[1]) = 1820

(* C13 *)

\* the feedback entries of the guesses that scored Correct, in order
CorrectFeedback == SelectSeq(Feedback, LAMBDA m : m.kind = "correct")

\* The transcript from entry i on is a log of the guesses the oracle made: every
\* feedback entry follows a completed guess (4 picked words, or a swap applied
\* to the guess before), names exactly that guess and states its score.
RECURSIVE LogFollows(_, _, _)
LogFollows(i, made, last) ==
    IF i > Len(action_messages) THEN made = <<>>
    ELSE LET m == action_messages[i]
         IN  IF m.kind = "word" THEN LogFollows(i + 1, Append(made, m.words[1]), last)
             ELSE IF m.kind = "swap"
             THEN /\ made = <<>>
                  /\ LogFollows(i + 1, ApplyRevision(last, m.words[1], m.words[2]), last)
             ELSE /\ Len(made) = CategorySize
                  /\ m.words = made
                  /\ m.kind = Kind(ScoreOf(made, puzzle))
                  /\ LogFollows(i + 1, <<>>, made)

C14_SessionIsolation ==
    pc \in {"pick", "revise", "score", "Solved", "Failed"} =>
        /\ KindCount("correct") = Len(correct_guesses)
        /\ KindCount("almost") + KindCount("nope") = wrong_attempts
        /\ (/\ pc = "pick"
            /\ selected_words = <<>>
            /\ correct_guesses = <<>>
            /\ wrong_attempts = 0) => action_messages = <<>>

(* C15 *)

\* the guess about to be scored was picked word by word, not made by a revision
FreshGuessMade ==
    /\ pc = "score"
    /\ action_messages[Len(action_messages)].kind = "word"

\* C15: a guess made in fresh mode holds no word of a correct guess and is no
\* grouping that is in current_category_incorrect.
C15_FreshCandidateSpace ==
    FreshGuessMade =>
        /\ SetOf(guess) \cap UsedWords(correct_guesses) = {}
        /\ SetOf(guess) \notin GroupSets(current_category_incorrect)

(* C16 *)

\* The session's first guess shared exactly 3 words with a category, and the
\* revision that followed swapped its odd word for that category's fourth word.
PartialThenFourth ==
    /\ Len(action_messages) = 7
    /\ action_messages[5].kind = "almost"
    /\ action_messages[6].kind = "swap"
    /\ LET first == action_messages[5].words
           swap == action_messages[6].words
       IN  \E i \in ThreeOf(first) :
               /\ {swap[1]} = SetOf(first) \ SetOf(puzzle.solutions[i].words)
               /\ {swap[2]} = SetOf(puzzle.solutions[i].words) \ SetOf(first)

\* C16: after such a first guess and revision the second guess has scored
\* Correct and the session goes on with a fresh guess: 1 correct guess, 12
\* remaining words, 1 wrong attempt, nothing in current_category_incorrect and
\* no revision state.
C16_PartialThenCorrected ==
    PartialThenFourth =>
        /\ action_messages[7].kind = "correct"
        /\ IsCategory(action_messages[7].words)
        /\ pc = "pick"
        /\ selected_words = <<>>
        /\ correct_guesses = <<action_messages[7].words>>
        /\ Cardinality(RemainingWords(puzzle.words, correct_guesses)) = NumWords - CategorySize
        /\ wrong_attempts = 1
        /\ current_category_incorrect = <<>>
        /\ ~ revising_guess
        /\ current_theme = None
        /\ last_guess = None

\* the sequence on the puzzle of main.py, the odd word being the last of the first guess
C16_Witness ==
    /\ PartialThenFourth
    /\ puzzle = ExamplePuzzle
    /\ action_messages[6].words[1] = action_messages[5].words[CategorySize]
    /\ wrong_attempts = 1

(* C17 *)

\* C17: a guess that shares exactly 3 words with two categories is not scored
\* as a partial match of either; and in a puzzle whose categories are pairwise
\* disjoint no guess shares 3 words with two categories.
C17_InvariantViolation ==
    pc = "checked" =>
        /\ Cardinality(ThreeOf(guess)) >= 2 => Kind(outcome) # "almost"
        /\ (\A i, j \in DOMAIN puzzle.solutions :
                i # j => SetOf(puzzle.solutions[i].words) \cap SetOf(puzzle.solutions[j].words) = {})
               => Cardinality(ThreeOf(guess)) <= 1

(* C18 *)

\* the pairs (word_to_drop, word_to_add) of the claimed revision space
SwapSpace(prior, remaining) == SetOf(prior) \X (remaining \ SetOf(prior))

\* the guess with the word at position i replaced by add and nothing else changed
SwappedAt(prior, i, add, g) ==
    /\ Len(g) = Len(prior)
    /\ g[i] = add
    /\ \A j \in DOMAIN prior : j # i => g[j] = prior[j]

\* C18: at a revision the offered pairs are exactly prior_guess x
\* (remaining_words minus prior_guess), |prior_guess| * |remaining_words minus
\* prior_guess| of them; every offered pair, applied, replaces the dropped word
\* in its position, keeps the other three words in their positions and gives 4
\* distinct words, none of a correct guess unless it was in the prior guess;
\* and the guess the revision step produces is the oracle's pair applied so.
C18_RevisionSwapSpace ==
    [][pc = "revise" =>
        LET prior == last_guess[1]
            remaining == RemainingWords(puzzle.words, correct_guesses)
            swap == action_messages'[Len(action_messages')].words
        IN  /\ OfferedPairs = SwapSpace(prior, remaining)
            /\ Cardinality(OfferedPairs)
                   = Cardinality(SetOf(prior)) * Cardinality(remaining \ SetOf(prior))
            /\ \A c \in OfferedPairs :
                   LET g == ApplyRevision(prior, c[1], c[2])
                   IN  /\ \E i \in DOMAIN prior : prior[i] = c[1] /\ SwappedAt(prior, i, c[2], g)
                       /\ Cardinality(SetOf(g)) = CategorySize
                       /\ SetOf(g) \cap UsedWords(correct_guesses) \subseteq SetOf(prior)
            /\ pc' = "score"
            /\ <<swap[1], swap[2]>> \in OfferedPairs
            /\ guess' = ApplyRevision(prior, swap[1], swap[2])
            /\ \E i \in DOMAIN prior : prior[i] = swap[1] /\ SwappedAt(prior, i, swap[2], guess')
    ]_vars

\* a revision has been applied at a position other than the first, a category being solved
C18_Witness ==
    /\ pc = "score"
    /\ Len(correct_guesses) >= 1
    /\ Len(action_messages) >= 1
    /\ action_messages[Len(action_messages)].kind = "swap"
    /\ last_guess # None
    /\ guess # last_guess[1]
    /\ guess[1] = last_guess[1][1]

(* C19 *)

\* C19: the filter step removes a group exactly when its word set is the word
\* set of an incorrect guess, in whatever order that guess is; the groups kept
\* stay in their order; the number kept is the number of 4-element subsets of
\* the available words minus the number of distinct incorrect word sets that
\* are such subsets.
C19_ExclusionFiltering ==
    [][pc = "filter" =>
           LET generated == possible_groups[1]
               filtered == possible_groups'[1]
               excluded == GroupSets(GenArgs.incorrect_guesses)
               subsets == FourSubsets(GenAvailable)
           IN  /\ \A i \in DOMAIN generated :
                      (\E j \in DOMAIN filtered : filtered[j] = generated[i])
                          <=> SetOf(generated[i]) \notin excluded
               /\ filtered = SelectSeq(generated, LAMBDA g : \E j \in DOMAIN filtered : filtered[j] = g)
               /\ GroupSets(filtered) = subsets \ excluded
               /\ Len(filtered) = Cardinality(subsets) - Cardinality(excluded \cap subsets)]_vars

\* one word set excluded twice, in two orders that are not the generator's, is removed once
C19_Witness ==
    /\ pc = "cap"
    /\ GenArgs.incorrect_guesses = << <<6, 15, 10, 8>>, <<8, 10, 15, 6>> >>
    /\ Cardinality(GenAvailable) = NumWords
    /\ Len(possible_groups[1]) = 1819

(* C20 *)

\* a sequence in the opposite order
Reversed(s) == [i \in DOMAIN s |-> s[Len(s) + 1 - i]]

\* a sequence started from its second element
Rotated(s) == IF s = <<>> THEN s ELSE Append(Tail(s), Head(s))

\* a list of guesses in the opposite order, each guess in the opposite order
ReversedGuesses(gs) == Reversed([i \in DOMAIN gs |-> Reversed(gs[i])])

\* group a comes before group b in lexicographic order
LexLess(a, b) ==
    \E i \in DOMAIN a :
        /\ i \in DOMAIN b
        /\ a[i] < b[i]
        /\ \A j \in 1..(i - 1) : a[j] = b[j]

\* C20: the candidates returned are those of a call with the words, the
\* correct guesses and the incorrect guesses supplied in another order; the
\* words of each candidate are in ascending order and the candidates are in
\* lexicographic order.
C20_GeneratorDeterminism ==
    pc = "built" =>
        LET groups == possible_groups[1]
            a == GenArgs
        IN  /\ groups = CreateGuessModel(Reversed(a.words), ReversedGuesses(a.correct_guesses),
                                         ReversedGuesses(a.incorrect_guesses))
            /\ groups = CreateGuessModel(Rotated(a.words), Rotated(a.correct_guesses),
                                         Rotated(a.incorrect_guesses))
            /\ groups = CreateGuessModel(a.words, a.correct_guesses, a.incorrect_guesses)
            /\ \A i \in DOMAIN groups :
                   \A k \in 1..(Len(groups[i]) - 1) : groups[i][k] < groups[i][k + 1]
            /\ \A i \in 1..(Len(groups) - 1) : LexLess(groups[i], groups[i + 1])

\* candidates built from words supplied out of order, with a correct guess and incorrect guesses
C20_Witness ==
    /\ pc = "built"
    /\ GenArgs.words # Sorted(GenArgs.words)
    /\ GenArgs.correct_guesses # <<>>
    /\ Len(GenArgs.incorrect_guesses) >= 2
    /\ Len(possible_groups[1]) >= 2

(* C21 *)

\* the guesses of the feedback entries of a transcript that follow its last
\* entry of kind correct, in order
RECURSIVE WrongSinceCorrect(_)
WrongSinceCorrect(log) ==
    IF log = <<>> THEN <<>>
    ELSE LET n == Len(log)
             m == log[n]
         IN  IF m.kind = "correct" THEN <<>>
             ELSE IF m.kind \in {"almost", "nope"}
                  THEN Append(WrongSinceCorrect(SubSeq(log, 1, n - 1)), m.words)
                  ELSE WrongSinceCorrect(SubSeq(log, 1, n - 1))

\* the last entry of the transcript is a feedback entry of kind k
LastFeedback(k) ==
    /\ action_messages # <<>>
    /\ action_messages[Len(action_messages)].kind = k

\* C21 as claimed: the step that scores a category empties
\* current_category_incorrect, and after the step that scores a guess matching
\* no category and starts a fresh iteration it holds no guess that was in it
\* before.
C21_RejectedReset ==
    [][pc = "score" =>
           /\ IsCategory(guess) => current_category_incorrect' = <<>>
           /\ (IsIncorrectGuess(guess) /\ pc' = "pick")
                  => current_category_incorrect' \in {<<>>, <<guess>>}]_vars

\* C21 as amended: current_category_incorrect is emptied only by a guess scored
\* Correct; it is the sequence of the guesses scored wrong (partial match or
\* not) since the last guess scored Correct, so at a fresh iteration after an
\* Incorrect outcome it ends with that guess and keeps the earlier ones.
C21_RejectedAmended ==
    /\ pc \in {"pick", "revise", "score", "Solved", "Failed"}
           => current_category_incorrect = WrongSinceCorrect(action_messages)
    /\ (pc = "pick" /\ selected_words = <<>> /\ LastFeedback("nope"))
           => /\ current_category_incorrect # <<>>
              /\ current_category_incorrect[Len(current_category_incorrect)] = guess
    /\ (pc \in {"pick", "Solved"} /\ LastFeedback("correct"))
           => current_category_incorrect = <<>>

\* a fresh iteration begins after an Incorrect outcome, a category being
\* solved, with two guesses rejected since
C21_Witness ==
    /\ pc = "pick"
    /\ selected_words = <<>>
    /\ LastFeedback("nope")
    /\ Len(correct_guesses) >= 1
    /\ Len(current_category_incorrect) >= 2

(* C22 *)

\* the transcript entries among the messages of an oracle call: all but the
\* system message at the front and the request at the end
HistoryHanded(msgs) == SubSeq(msgs, 2, Len(msgs) - 1)

\* the kind of feedback the scoring of guess g calls for
FeedbackKind(g) ==
    IF IsCategory(g) THEN "correct" ELSE IF IsPartialGuess(g) THEN "almost" ELSE "nope"

\* C22: every step keeps the transcript as a prefix of the new one; an oracle
\* call is handed the whole transcript, which holds one feedback entry for each
\* guess scored so far, and appends the oracle's response alone; the scoring
\* step finds the response to its guess at the end of the transcript and
\* appends one feedback entry alone, with the guess and its outcome.
C22_Transcript ==
    [][LET log == action_messages
           new == action_messages'
       IN  /\ Len(new) >= Len(log)
           /\ SubSeq(new, 1, Len(log)) = log
           /\ pc \in {"pick", "revise"} =>
                  /\ messages' # None
                  /\ HistoryHanded(messages'[1]) = log
                  /\ Len(SelectSeq(HistoryHanded(messages'[1]), LAMBDA m : m.role = "user"))
                         = Len(correct_guesses) + wrong_attempts
                  /\ Len(new) = Len(log) + 1
                  /\ new[Len(new)].role = "assistant"
                  /\ UNCHANGED <<correct_guesses, wrong_attempts, outcome>>
           /\ pc = "score" =>
                  /\ log # <<>>
                  /\ log[Len(log)].role = "assistant"
                  /\ Len(new) = Len(log) + 1
                  /\ new[Len(new)].role = "user"
                  /\ new[Len(new)].words = guess
                  /\ new[Len(new)].kind = FeedbackKind(guess)
                  /\ Len(correct_guesses') + wrong_attempts'
                         = Len(correct_guesses) + wrong_attempts + 1
                  /\ UNCHANGED messages
           /\ pc \notin {"pick", "revise", "score"} => new = log]_vars

\* an oracle call has been handed a transcript with the three kinds of feedback in it
C22_Witness ==
    /\ messages # None
    /\ pc \in {"pick", "revise", "score"}
    /\ HistoryHanded(messages[1]) = SubSeq(action_messages, 1, Len(action_messages) - 1)
    /\ \A k \in {"correct", "almost", "nope"} :
           \E i \in DOMAIN messages[1] : messages[1][i].role = "user" /\ messages[1][i].kind = k
    /\ action_messages[Len(action_messages)].role = "assistant"

(* C23 *)

\* the revising flag, the prior guess and the theme hint all hold a value
RevisionSet == revising_guess /\ last_guess # None /\ current_theme # None

\* the revising flag is off and the prior guess and the theme hint are None
RevisionCleared == ~ revising_guess /\ last_guess = None /\ current_theme = None

\* C23: once solve() runs, the revising flag, the prior guess and the theme
\* hint are all set or all cleared; they are set exactly when the last scored
\* guess was a partial match, the prior guess being that guess and the theme
\* that of the category it shares 3 words with; they are cleared when no guess
\* has been scored; and a revision is made only when they are set.
C23_RevisionConsistency ==
    pc \in {"pick", "revise", "score", "Solved", "Failed"} =>
        /\ RevisionSet \/ RevisionCleared
        /\ Feedback = <<>> => RevisionCleared
        /\ Feedback # <<>> =>
               LET last == Feedback[Len(Feedback)]
               IN  /\ RevisionSet <=> last.kind = "almost"
                   /\ RevisionCleared <=> last.kind \in {"correct", "nope"}
                   /\ RevisionSet =>
                          /\ last_guess[1] = last.words
                          /\ IsPartialGuess(last_guess[1])
                          /\ \E i \in ThreeOf(last_guess[1]) :
                                 current_theme[1] = puzzle.solutions[i].theme
        /\ pc = "revise" => RevisionSet

\* a second partial match in a row, made by a revision, has been stored
C23_Witness ==
    /\ pc = "revise"
    /\ RevisionSet
    /\ Len(Feedback) >= 3
    /\ Feedback[Len(Feedback) - 1].kind = "almost"
    /\ Feedback[Len(Feedback) - 1].words # last_guess[1]
    /\ \E i \in DOMAIN Feedback : Feedback[i].kind = "correct"

(* C24 *)

\* the categories whose word set is that of guess g
CategoriesOf(g) == {i \in DOMAIN puzzle.solutions : SetOf(puzzle.solutions[i].words) = SetOf(g)}

\* C24: in every state of a solve each correct guess is the word set of one
\* category, no two of them of the same category; the remaining words are the
\* puzzle's words outside them, 16 - 4 * (number of correct guesses) words;
\* and at Solved the 4 correct guesses, which are the returned solution,
\* partition the 16 words.
C24_SolvedIntegrity ==
    pc \in {"pick", "revise", "score", "Solved", "Failed"} =>
        LET cg == correct_guesses
            remaining == RemainingWords(puzzle.words, cg)
        IN  /\ \A i \in DOMAIN cg : Cardinality(CategoriesOf(cg[i])) = 1
            /\ \A i, j \in DOMAIN cg : i # j => CategoriesOf(cg[i]) # CategoriesOf(cg[j])
            /\ \A i, j \in DOMAIN cg : i # j => SetOf(cg[i]) \cap SetOf(cg[j]) = {}
            /\ remaining \subseteq SetOf(puzzle.words)
            /\ \A w \in SetOf(puzzle.words) :
                   w \in remaining <=> ~ \E i \in DOMAIN cg : w \in SetOf(cg[i])
            /\ Cardinality(remaining) = NumWords - CategorySize * Len(cg)
            /\ pc = "Solved" =>
                   /\ Len(cg) = NumCategories
                   /\ remaining = {}
                   /\ UNION {SetOf(cg[i]) : i \in DOMAIN cg} = SetOf(puzzle.words)
                   /\ returned = Some(SolutionOf(cg))

\* the session is Solved after wrong guesses, a category having been found by a revision
C24_Witness ==
    /\ pc = "Solved"
    /\ wrong_attempts >= 2
    /\ Len(correct_guesses) = NumCategories
    /\ \E i \in 2..Len(action_messages) :
           action_messages[i].kind = "correct" /\ action_messages[i - 1].kind = "swap"

(* C25 *)

\* the number of 3-element subsets of a set of n elements
Choose3(n) == (n * (n - 1) * (n - 2)) \div 6

\* the categories of the puzzle that are not among the correct guesses of the call
UnsolvedCategories ==
    {i \in DOMAIN puzzle.solutions :
         SetOf(puzzle.solutions[i].words) \notin GroupSets(GenArgs.correct_guesses)}

\* the positions in a sequence of groups of the groups that are category i
PositionsOf(groups, i) ==
    {k \in DOMAIN groups : SetOf(groups[k]) = SetOf(puzzle.solutions[i].words)}

\* C25: for the words, the correct guesses and up to 3 rejected guesses of a
\* session that has not ended, the candidates returned are not empty and hold
\* an unsolved category: the category of the smallest available word is among
\* the first C(n - 1, 3) candidates, at most 455; with 12 available words or
\* fewer the cap cuts nothing.
C25_CapKeepsAnAnswer ==
    pc = "built" =>
        LET groups == possible_groups[1]
            n == Cardinality(GenAvailable)
            first == Min(GenAvailable)
        IN  /\ groups # <<>>
            /\ \E i \in UnsolvedCategories : PositionsOf(groups, i) # {}
            /\ \E i \in UnsolvedCategories :
                   /\ first \in SetOf(puzzle.solutions[i].words)
                   /\ \E k \in PositionsOf(groups, i) :
                          k <= Choose3(n - 1) /\ k <= 455 /\ k <= MaxCombinations
            /\ n <= NumWords - CategorySize =>
                   /\ Choose4(n) <= 495
                   /\ Len(groups) = Choose4(n) - Len(GenArgs.incorrect_guesses)
                   /\ \A i \in UnsolvedCategories : PositionsOf(groups, i) # {}

\* 16 available words and 3 rejected guesses: the cap has cut the candidates
\* and one category alone is left among them, just under the cap
C25_Witness ==
    /\ pc = "built"
    /\ puzzle = LatePuzzle
    /\ Len(GenArgs.incorrect_guesses) = 3
    /\ Len(possible_groups[1]) = MaxCombinations
    /\ Cardinality({i \in UnsolvedCategories : PositionsOf(possible_groups[1], i) # {}}) = 1
    /\ \E k \in PositionsOf(possible_groups[1], 3) : k > 450

====
